---- MODULE Spec2Model ----
(***************************************************************************)
(* Model of src/src/datecalendar.py: the bounded integer types, the Date   *)
(* Token Index <-> Julian Date mapping and the Julian Date <-> calendar    *)
(* date algorithms of the Gregorian and the Julian calendar.               *)
(*                                                                         *)
(* Python integers are unbounded, and the library is used with values up   *)
(* to 2^256.  The integers of the model checker are 32 bits wide, so every *)
(* Python int that can be large (a jdn, a DTI, a year, a bound) is a Big:  *)
(* sign and magnitude, the magnitude a little-endian sequence of limbs in  *)
(* base 256 without leading zero limbs.  Fields the code forces into uint8 *)
(* or uint16 are plain integers once constructed.                          *)
(***************************************************************************)
EXTENDS Integers, Sequences, FiniteSets, TLC

(***************************************************************************)
(* Unbounded integer arithmetic (Python int).                              *)
(*                                                                         *)
(* Only({F(x) : x \in {e}}) is F(e) with e evaluated once.  The operators  *)
(* bind their operands this way, so that an operand is evaluated once      *)
(* however often the operator reads it.                                    *)
(***************************************************************************)
Base == 256

Only(S) == CHOOSE x \in S : TRUE

Limb(s, i) == IF i <= Len(s) THEN s[i] ELSE 0

\* s[1..n] without its leading (most significant) zero limbs
RECURSIVE MagNorm(_, _)
MagNorm(s, n) ==
    IF n = 0 THEN <<>>
    ELSE IF s[n] = 0 THEN MagNorm(s, n - 1)
    ELSE SubSeq(s, 1, n)

RECURSIVE MagOfNat(_)
MagOfNat(n) == IF n = 0 THEN <<>> ELSE <<n % Base>> \o MagOfNat(n \div Base)

\* -1, 0, 1 as a is smaller than, equal to, larger than b below limb i + 1
RECURSIVE MagCmpFrom(_, _, _)
MagCmpFrom(a, b, i) ==
    IF i = 0 THEN 0
    ELSE IF a[i] < b[i] THEN -1
    ELSE IF a[i] > b[i] THEN 1
    ELSE MagCmpFrom(a, b, i - 1)

\* -1, 0, 1 as a is smaller than, equal to, larger than b
MagCmp(a, b) ==
    IF Len(a) < Len(b) THEN -1
    ELSE IF Len(a) > Len(b) THEN 1
    ELSE MagCmpFrom(a, b, Len(a))

\* the limbs i.. of a + b
RECURSIVE MagAdd(_, _, _, _)
MagAdd(a, b, i, carry) ==
    IF i > Len(a) /\ i > Len(b)
    THEN IF carry = 0 THEN <<>> ELSE <<carry>>
    ELSE Only({ <<s % Base>> \o MagAdd(a, b, i + 1, s \div Base) :
                s \in {Limb(a, i) + Limb(b, i) + carry} })

\* the limbs i.. of a - b for a >= b, leading zero limbs not removed
RECURSIVE MagSub(_, _, _, _)
MagSub(a, b, i, borrow) ==
    IF i > Len(a) THEN <<>>
    ELSE Only({ <<s % Base>> \o MagSub(a, b, i + 1, IF s < 0 THEN 1 ELSE 0) :
                s \in {a[i] - Limb(b, i) - borrow} })

\* the limbs i.. of a * k for a plain integer 0 <= k < 2^22
RECURSIVE MagMul(_, _, _, _)
MagMul(a, k, i, carry) ==
    IF i > Len(a) THEN MagOfNat(carry)
    ELSE Only({ <<s % Base>> \o MagMul(a, k, i + 1, s \div Base) :
                s \in {a[i] * k + carry} })

\* <<quotient, remainder>> of the limbs i.. of a (the number a \div Base^(i-1))
\* by a plain integer 0 < d < 2^22; the quotient may carry leading zero limbs
RECURSIVE MagDivMod(_, _, _)
MagDivMod(a, d, i) ==
    IF i > Len(a) THEN << <<>>, 0 >>
    ELSE Only({ << <<(hi[2] * Base + a[i]) \div d>> \o hi[1], (hi[2] * Base + a[i]) % d >> :
                hi \in {MagDivMod(a, d, i + 1)} })

\* the Python int of sign neg and magnitude mag (leading zero limbs removed)
Big(neg, mag) ==
    Only({ [neg |-> neg /\ m # <<>>, mag |-> m] : m \in { Only({MagNorm(x, Len(x)) : x \in {mag}}) } })

\* a plain integer as a Python int
I(n) == Only({ [neg |-> x < 0, mag |-> MagOfNat(IF x < 0 THEN -x ELSE x)] : x \in {n} })

Zero == [neg |-> FALSE, mag |-> <<>>]

One == [neg |-> FALSE, mag |-> <<1>>]

Neg(a) == Only({ [neg |-> ~x.neg /\ x.mag # <<>>, mag |-> x.mag] : x \in {a} })

\* x + y for x and y of opposite signs, c = MagCmp(x.mag, y.mag)
AddOpposite(x, y, c) ==
    IF c >= 0 THEN Big(x.neg, MagSub(x.mag, y.mag, 1, 0))
    ELSE Big(y.neg, MagSub(y.mag, x.mag, 1, 0))

\* Python a + b
Add(a, b) ==
    Only({ IF x.neg = y.neg THEN [neg |-> x.neg, mag |-> MagAdd(x.mag, y.mag, 1, 0)]
           ELSE Only({AddOpposite(x, y, c) : c \in {MagCmp(x.mag, y.mag)}}) :
           x \in {a}, y \in {b} })

\* Python a - b
Sub(a, b) == Add(a, Neg(b))

\* Python a * k, k a plain integer
Mul(a, k) ==
    Only({ Big(x.neg # (k < 0), MagMul(x.mag, IF k < 0 THEN -k ELSE k, 1, 0)) : x \in {a} })

\* Python a // d (floor division), d a plain positive integer
FloorDiv(a, d) ==
    Only({ Only({ IF x.neg /\ qr[2] # 0 THEN Big(TRUE, MagAdd(qr[1], <<1>>, 1, 0))
                  ELSE Big(x.neg, qr[1]) :
                  qr \in {MagDivMod(x.mag, d, 1)} }) :
           x \in {a} })

\* Python a % d (result in 0..d-1), d a plain positive integer
Mod(a, d) ==
    Only({ Only({ IF ~x.neg \/ r = 0 THEN r ELSE d - r : r \in {MagDivMod(x.mag, d, 1)[2]} }) :
           x \in {a} })

\* int(a / d) for d > 0: the quotient truncated towards zero
TruncDiv(a, d) == Only({ Big(x.neg, MagDivMod(x.mag, d, 1)[1]) : x \in {a} })

\* Python a < b
Lt(a, b) ==
    Only({ IF x.neg # y.neg THEN x.neg
           ELSE IF x.neg THEN MagCmp(x.mag, y.mag) > 0
           ELSE MagCmp(x.mag, y.mag) < 0 :
           x \in {a}, y \in {b} })

\* Python a <= b
Le(a, b) == ~Lt(b, a)

\* Python 2 ** n
Pow2(n) == [neg |-> FALSE, mag |-> [i \in 1..(n \div 8) |-> 0] \o <<2 ^ (n % 8)>>]

\* the plain integer of a magnitude below 2^24
RECURSIVE MagToNat(_, _)
MagToNat(s, i) == IF i > Len(s) THEN 0 ELSE s[i] + Base * MagToNat(s, i + 1)

\* the plain integer of a Python int below 2^24 in magnitude
ToInt(a) ==
    Only({ IF x.neg THEN -MagToNat(x.mag, 1) ELSE MagToNat(x.mag, 1) : x \in {a} })

(***************************************************************************)
(* Errors.  A call that raises is modelled by the value Raise(kind); every *)
(* caller passes an error of a callee on unchanged.                        *)
(***************************************************************************)
Raise(kind) == [err |-> kind]

IsErr(x) == "err" \in DOMAIN x

OverflowError == Raise("OverflowError")

IndexError == Raise("IndexError")

(***************************************************************************)
(* SolidityInt and its subclasses.                                         *)
(***************************************************************************)
\* the class attribute SOLIDITY_TYPE as (starts with 'u', the digits left by
\* strip('uint'), 0 for none); DateTokenIndex and JDN inherit it
SOLIDITY_TYPE(cls) ==
    CASE cls = "SolidityInt" -> [u |-> FALSE, digits |-> 0]
      [] cls = "uint8" -> [u |-> TRUE, digits |-> 8]
      [] cls = "uint16" -> [u |-> TRUE, digits |-> 16]
      [] cls \in {"uint256", "DateTokenIndex"} -> [u |-> TRUE, digits |-> 256]
      [] cls \in {"int256", "JDN"} -> [u |-> FALSE, digits |-> 256]

\* n*10**9*365.25 for n = 20, -20, 40: with 365.25 = 1461/4 and n*10**9 a
\* multiple of 4 below 2^50, the float product is the exact integer
Billion365_25(n) == FloorDiv(Mul(Mul(Mul(Mul(I(n), 1000), 1000), 1000), 1461), 4)

\* DateTokenIndex.MIDPOINT = 20*10**9*365.25, the float 7305000000000.0
MIDPOINT == Billion365_25(20)

\* SolidityInt.get_int_bounds for the size of the type string
SizeBounds(u, p) ==
    IF u THEN <<Zero, Sub(Add(p, p), One)>> ELSE <<Neg(p), Sub(p, One)>>

\* a faulty get_int_bounds in which DateTokenIndex does not override the
\* bounds of uint256
get_int_bounds_dti_not_overridden(cls) ==
    IF cls = "JDN" THEN <<Billion365_25(-20), Billion365_25(20)>>
    ELSE Only({ Only({ SizeBounds(type_str.u, p) :
                       p \in {Pow2((IF type_str.digits = 0 THEN 256 ELSE type_str.digits) - 1)} }) :
                type_str \in {SOLIDITY_TYPE(cls)} })

\* SolidityInt.get_int_bounds, as overridden by DateTokenIndex and JDN
get_int_bounds(cls) ==
    IF cls = "DateTokenIndex" THEN <<Zero, Billion365_25(40)>>
    ELSE IF cls = "JDN" THEN <<Billion365_25(-20), Billion365_25(20)>>
    ELSE Only({ Only({ SizeBounds(type_str.u, p) :
                       p \in {Pow2((IF type_str.digits = 0 THEN 256 ELSE type_str.digits) - 1)} }) :
                type_str \in {SOLIDITY_TYPE(cls)} })

\* SolidityInt.get_midpoint_value
get_midpoint_value(cls) ==
    Only({ Add(FloorDiv(Add(Sub(b[2], b[1]), One), 2), b[1]) : b \in {get_int_bounds(cls)} })

\* a faulty __new__ that also rejects the two bounds
SolidityInt_new_exclusive(cls, value) ==
    Only({ IF Le(v, b[1]) \/ Le(b[2], v) THEN OverflowError ELSE v :
           v \in {value}, b \in {get_int_bounds(cls)} })

\* SolidityInt.__new__: the value, or OverflowError outside the bounds
SolidityInt_new(cls, value) ==
    Only({ IF Lt(v, b[1]) \/ Lt(b[2], v) THEN OverflowError ELSE v :
           v \in {value}, b \in {get_int_bounds(cls)} })

(***************************************************************************)
(* JulianDate and DateTokenIndex.                                          *)
(***************************************************************************)
\* JulianDate.__new__: jdn=JDN(jdn) is evaluated before uint16(day_fraction)
JulianDate(jdn, day_fraction) ==
    Only({ IF IsErr(j) THEN j
           ELSE IF IsErr(f) THEN f
           ELSE [jdn |-> j, day_fraction |-> ToInt(f)] :
           j \in {SolidityInt_new("JDN", jdn)},
           f \in {SolidityInt_new("uint16", day_fraction)} })

\* a faulty from_jd that does not add MIDPOINT
DateTokenIndex_from_jd_unshifted(jd) == SolidityInt_new("DateTokenIndex", jd.jdn)

\* DateTokenIndex.from_jd: the day fraction is ignored
DateTokenIndex_from_jd(jd) == SolidityInt_new("DateTokenIndex", Add(jd.jdn, MIDPOINT))

\* a faulty from_dti that subtracts the midpoint of uint256, 2^255
JulianDate_from_dti_uint256(dti) == JulianDate(Sub(dti, get_midpoint_value("uint256")), I(5))

\* JulianDate.from_dti
JulianDate_from_dti(dti) == JulianDate(Sub(dti, MIDPOINT), I(5))

\* DateTokenIndex.to_jd
DateTokenIndex_to_jd(dti) == JulianDate_from_dti(dti)

\* JulianDate.to_dti
JulianDate_to_dti(jd) == DateTokenIndex_from_jd(jd)

(***************************************************************************)
(* CalendarDate, GCalDate, JCalDate.                                       *)
(***************************************************************************)
\* CalendarDate.__new__ for cls GCalDate or JCalDate; the four fields are
\* converted in the order day_of_week, day, month, year
CalendarDate(cls, day_of_week, day, month, year) ==
    Only({ IF IsErr(w) THEN w
           ELSE IF IsErr(d) THEN d
           ELSE IF IsErr(m) THEN m
           ELSE IF IsErr(y) THEN y
           ELSE [cls |-> cls, day_of_week |-> ToInt(w), day |-> ToInt(d),
                 month |-> ToInt(m), year |-> y] :
           w \in {SolidityInt_new("uint8", day_of_week)},
           d \in {SolidityInt_new("uint8", day)},
           m \in {SolidityInt_new("uint8", month)},
           y \in {SolidityInt_new("int256", year)} })

_FROM_JD_HELPER == <<0, 31, 61, 92, 122, 153, 184, 214, 245, 275, 306, 337>>

_TO_JD_HELPER == <<306, 337, 0, 31, 61, 92, 122, 153, 184, 214, 245, 275>>

\* tuple[index] of a 12-tuple: a negative index counts from the end, an
\* index outside -12..11 raises IndexError
TupleGet(tuple, index) ==
    Only({ IF Lt(i, I(-12)) \/ Lt(I(11), i) THEN IndexError
           ELSE [val |-> tuple[(ToInt(i) % 12) + 1]] :
           i \in {index} })

\* a faulty day_of_week_from_jd whose remainder has the sign of jdn + 2
GCalDate_day_of_week_from_jd_signed(jd) ==
    Only({ IF x.neg THEN -Mod(Neg(x), 7) ELSE Mod(x, 7) : x \in {Add(jd.jdn, I(2))} })

\* a faulty day_of_week_from_jd that is (jdn + 1) % 7
GCalDate_day_of_week_from_jd_plus_one(jd) == Mod(Add(jd.jdn, One), 7)

\* GCalDate.day_of_week_from_jd
GCalDate_day_of_week_from_jd(jd) == Mod(Add(jd.jdn, I(2)), 7)

\* JCalDate.day_of_week_from_jd
JCalDate_day_of_week_from_jd(jd) == GCalDate_day_of_week_from_jd(jd)

\* a faulty end of from_jd that leaves the months 13 and 14 in the old year
FromJdDate_same_year(cls, y, c, m, f, dow) ==
    IF IsErr(f) THEN f
    ELSE IF Lt(I(12), m)
    THEN CalendarDate(cls, I(dow), Sub(c, I(f.val)), Sub(m, I(12)), y)
    ELSE CalendarDate(cls, I(dow), Sub(c, I(f.val)), m, y)

\* the end of both from_jd, from the table lookup on: the day, the shift of
\* the months 13 and 14 into the next year, and the construction
FromJdDate(cls, y, c, m, f, dow) ==
    IF IsErr(f) THEN f
    ELSE IF Lt(I(12), m)
    THEN CalendarDate(cls, I(dow), Sub(c, I(f.val)), Sub(m, I(12)), Add(y, One))
    ELSE CalendarDate(cls, I(dow), Sub(c, I(f.val)), m, y)

\* the end of both from_jd, from m = int((5 * c + 456) / 153) on
FromJdTail(cls, year, cycle_day, dow) ==
    Only({ Only({ Only({ FromJdDate(cls, y, c, m, f, dow) :
                         f \in {TupleGet(_FROM_JD_HELPER, Sub(m, I(3)))} }) :
                  m \in {TruncDiv(Add(Mul(c, 5), I(456)), 153)} }) :
           y \in {year}, c \in {cycle_day} })

\* a faulty from_jd without the correction a of the century years
GCalDate_from_jd_no_century(jd) ==
    LET z == Sub(jd.jdn, I(1721118))
        k == 25
        y == FloorDiv(Sub(Mul(z, 100), I(k)), 36525)
        c == Sub(z, FloorDiv(Mul(y, 36525), 100))
    IN  FromJdTail("GCalDate", y, c, GCalDate_day_of_week_from_jd(jd))

\* GCalDate.from_jd
GCalDate_from_jd(jd) ==
    LET z == Sub(jd.jdn, I(1721118))
        k == 25
        a == FloorDiv(Sub(Mul(z, 100), I(k)), 3652425)
        y == FloorDiv(Sub(Add(Sub(Mul(z, 100), I(k)), Mul(a, 100)),
                          Mul(FloorDiv(a, 4), 100)), 36525)
        c == Sub(Sub(Add(z, a), FloorDiv(a, 4)), FloorDiv(Mul(y, 36525), 100))
    IN  FromJdTail("GCalDate", y, c, GCalDate_day_of_week_from_jd(jd))

\* a faulty from_jd whose year is a division rounded toward zero
JCalDate_from_jd_truncating(jd) ==
    LET z == Sub(jd.jdn, I(1721116))
        k == 25
        y == TruncDiv(Sub(Mul(z, 100), I(k)), 36525)
        c == Sub(z, FloorDiv(Mul(y, 36525), 100))
    IN  FromJdTail("JCalDate", y, c, JCalDate_day_of_week_from_jd(jd))

\* JCalDate.from_jd
JCalDate_from_jd(jd) ==
    LET z == Sub(jd.jdn, I(1721116))
        k == 25
        y == FloorDiv(Sub(Mul(z, 100), I(k)), 36525)
        c == Sub(z, FloorDiv(Mul(y, 36525), 100))
    IN  FromJdTail("JCalDate", y, c, JCalDate_day_of_week_from_jd(jd))

\* a faulty computation of y, c and m whose divisions round toward zero
FromJdCycle_truncating(cls, jd) ==
    LET z == Sub(jd.jdn, I(IF cls = "GCalDate" THEN 1721118 ELSE 1721116))
        k == 25
        a == TruncDiv(Sub(Mul(z, 100), I(k)), 3652425)
        y == IF cls = "GCalDate"
             THEN TruncDiv(Sub(Add(Sub(Mul(z, 100), I(k)), Mul(a, 100)),
                               Mul(TruncDiv(a, 4), 100)), 36525)
             ELSE TruncDiv(Sub(Mul(z, 100), I(k)), 36525)
        c == IF cls = "GCalDate"
             THEN Sub(Sub(Add(z, a), TruncDiv(a, 4)), TruncDiv(Mul(y, 36525), 100))
             ELSE Sub(z, TruncDiv(Mul(y, 36525), 100))
    IN  Only({ [y |-> y, c |-> cc, m |-> TruncDiv(Add(Mul(cc, 5), I(456)), 153)] : cc \in {c} })

\* the values of y, c and m of cls.from_jd(jd) before the table lookup
FromJdCycle(cls, jd) ==
    LET z == Sub(jd.jdn, I(IF cls = "GCalDate" THEN 1721118 ELSE 1721116))
        k == 25
        a == FloorDiv(Sub(Mul(z, 100), I(k)), 3652425)
        y == IF cls = "GCalDate"
             THEN FloorDiv(Sub(Add(Sub(Mul(z, 100), I(k)), Mul(a, 100)),
                               Mul(FloorDiv(a, 4), 100)), 36525)
             ELSE FloorDiv(Sub(Mul(z, 100), I(k)), 36525)
        c == IF cls = "GCalDate"
             THEN Sub(Sub(Add(z, a), FloorDiv(a, 4)), FloorDiv(Mul(y, 36525), 100))
             ELSE Sub(z, FloorDiv(Mul(y, 36525), 100))
    IN  Only({ [y |-> y, c |-> cc, m |-> TruncDiv(Add(Mul(cc, 5), I(456)), 153)] : cc \in {c} })

\* a faulty z of to_jd: the year, for every month
ToJdYear_unshifted(self) == self.year

\* the z of both to_jd: the year, or the year before for January and February
ToJdYear(self) == IF self.month < 3 THEN Sub(self.year, One) ELSE self.year

\* the f of both to_jd
ToJdHelper(self) == TupleGet(_TO_JD_HELPER, I(self.month - 1))

\* a faulty to_jd whose divisions round toward zero
GCalDate_to_jd_zf_truncating(d, z, f) ==
    IF IsErr(f) THEN f
    ELSE LET p1 == TruncDiv(z, 4)
             p2 == TruncDiv(z, 100)
             p3 == TruncDiv(z, 400)
             jdn == Add(Add(Sub(Add(Add(I(d + f.val), Mul(z, 365)), p1), p2), p3),
                        I(1721118))
         IN  JulianDate(jdn, I(5))

\* GCalDate.to_jd for z and f as computed
GCalDate_to_jd_zf(d, z, f) ==
    IF IsErr(f) THEN f
    ELSE LET p1 == FloorDiv(z, 4)
             p2 == FloorDiv(z, 100)
             p3 == FloorDiv(z, 400)
             jdn == Add(Add(Sub(Add(Add(I(d + f.val), Mul(z, 365)), p1), p2), p3),
                        I(1721118))
         IN  JulianDate(jdn, I(5))

\* GCalDate.to_jd
GCalDate_to_jd(self) ==
    Only({ GCalDate_to_jd_zf(self.day, z, f) : z \in {ToJdYear(self)}, f \in {ToJdHelper(self)} })

\* a faulty to_jd that returns a day fraction of 0
JCalDate_to_jd_zf_fraction_zero(d, z, f) ==
    IF IsErr(f) THEN f
    ELSE LET p1 == FloorDiv(z, 4)
             jdn == Add(Add(Add(I(d + f.val), Mul(z, 365)), p1), I(1721116))
         IN  JulianDate(jdn, I(0))

\* JCalDate.to_jd for z and f as computed
JCalDate_to_jd_zf(d, z, f) ==
    IF IsErr(f) THEN f
    ELSE LET p1 == FloorDiv(z, 4)
             jdn == Add(Add(Add(I(d + f.val), Mul(z, 365)), p1), I(1721116))
         IN  JulianDate(jdn, I(5))

\* JCalDate.to_jd
JCalDate_to_jd(self) ==
    Only({ JCalDate_to_jd_zf(self.day, z, f) : z \in {ToJdYear(self)}, f \in {ToJdHelper(self)} })

\* JulianDate.to_gcal_date
JulianDate_to_gcal_date(jd) == GCalDate_from_jd(jd)

\* a faulty to_jcal_date that takes the day, month and year of the Gregorian
\* calendar
JulianDate_to_jcal_date_gregorian(jd) ==
    Only({ IF IsErr(g) THEN g ELSE [g EXCEPT !.cls = "JCalDate"] : g \in {GCalDate_from_jd(jd)} })

\* JulianDate.to_jcal_date
JulianDate_to_jcal_date(jd) == JCalDate_from_jd(jd)

\* self.to_jd() of either calendar class
to_jd(self) == IF self.cls = "GCalDate" THEN GCalDate_to_jd(self) ELSE JCalDate_to_jd(self)

\* a faulty to_jcal_date that keeps day, month and year
GCalDate_to_jcal_date_relabelled(self) == [self EXCEPT !.cls = "JCalDate"]

\* GCalDate.to_jcal_date
GCalDate_to_jcal_date(self) ==
    Only({ IF IsErr(jd) THEN jd ELSE JulianDate_to_jcal_date(jd) : jd \in {GCalDate_to_jd(self)} })

\* a faulty to_gcal_date that keeps day, month and year
JCalDate_to_gcal_date_relabelled(self) == [self EXCEPT !.cls = "GCalDate"]

\* JCalDate.to_gcal_date
JCalDate_to_gcal_date(self) ==
    Only({ IF IsErr(jd) THEN jd ELSE JulianDate_to_gcal_date(jd) : jd \in {JCalDate_to_jd(self)} })

\* CalendarDate.to_dti
CalendarDate_to_dti(self) ==
    Only({ IF IsErr(jd) THEN jd ELSE JulianDate_to_dti(jd) : jd \in {to_jd(self)} })

\* a faulty leap_year without the rule of the years divisible by 400
GCalDate_leap_year_no_400(self) ==
    LET a == Mod(self.year, 4)
        b == Mod(self.year, 100)
    IN  a = 0 /\ b # 0

\* GCalDate.leap_year, as a truth value
GCalDate_leap_year(self) ==
    LET a == Mod(self.year, 4)
        b == Mod(self.year, 100)
        c == Mod(self.year, 400)
    IN  a = 0 /\ (b # 0 \/ c = 0)

\* JCalDate.leap_year
JCalDate_leap_year(self) ==
    LET a == Mod(self.year, 4)
    IN  a = 0

\* self.leap_year of either calendar class
leap_year(self) ==
    IF self.cls = "GCalDate" THEN GCalDate_leap_year(self) ELSE JCalDate_leap_year(self)

\* cls.from_jd(jd) of either calendar class
from_jd(cls, jd) == IF cls = "GCalDate" THEN GCalDate_from_jd(jd) ELSE JCalDate_from_jd(jd)

(***************************************************************************)
(* Comparison, from_dmy, valid and __str__ of CalendarDate.                *)
(***************************************************************************)
\* a faulty __lt__ that compares the day before the month
CalendarDate_lt_day_first(self, other) ==
    IF Lt(other.year, self.year) THEN FALSE
    ELSE IF Lt(self.year, other.year) THEN TRUE
    ELSE IF self.day > other.day THEN FALSE
    ELSE IF self.day < other.day THEN TRUE
    ELSE IF self.month > other.month THEN FALSE
    ELSE IF self.month < other.month THEN TRUE
    ELSE FALSE

\* CalendarDate.__lt__ for other a CalendarDate: by year, month, day
CalendarDate_lt(self, other) ==
    IF Lt(other.year, self.year) THEN FALSE
    ELSE IF Lt(self.year, other.year) THEN TRUE
    ELSE IF self.month > other.month THEN FALSE
    ELSE IF self.month < other.month THEN TRUE
    ELSE IF self.day > other.day THEN FALSE
    ELSE IF self.day < other.day THEN TRUE
    ELSE FALSE

\* ComparableMixin.__eq__
ComparableMixin_eq(self, other) ==
    ~CalendarDate_lt(self, other) /\ ~CalendarDate_lt(other, self)

\* ComparableMixin.__ne__
ComparableMixin_ne(self, other) ==
    CalendarDate_lt(self, other) \/ CalendarDate_lt(other, self)

\* ComparableMixin.__gt__
ComparableMixin_gt(self, other) == CalendarDate_lt(other, self)

\* ComparableMixin.__ge__
ComparableMixin_ge(self, other) == ~CalendarDate_lt(self, other)

\* ComparableMixin.__le__
ComparableMixin_le(self, other) == ~CalendarDate_lt(other, self)

\* cls.day_of_week_from_jd(jd) of either calendar class
day_of_week_from_jd(cls, jd) ==
    IF cls = "GCalDate" THEN GCalDate_day_of_week_from_jd(jd)
    ELSE JCalDate_day_of_week_from_jd(jd)

\* a faulty from_dmy that returns the placeholder date, of day_of_week 0
FromDmyDate_placeholder(cls, cd, day, month, year) ==
    IF IsErr(cd) THEN cd
    ELSE Only({ IF IsErr(jd) THEN jd ELSE cd : jd \in {to_jd(cd)} })

\* CalendarDate.from_dmy from the placeholder date _cd on
FromDmyDate(cls, cd, day, month, year) ==
    IF IsErr(cd) THEN cd
    ELSE Only({ IF IsErr(jd) THEN jd
                ELSE CalendarDate(cls, I(day_of_week_from_jd(cls, jd)), day, month, year) :
                jd \in {to_jd(cd)} })

\* CalendarDate.from_dmy
CalendarDate_from_dmy(cls, day, month, year) ==
    Only({ FromDmyDate(cls, cd, day, month, year) :
           cd \in {CalendarDate(cls, Zero, day, month, year)} })

\* a faulty valid that only looks at the range of the day
CalendarDate_valid_day_range(self) == [bool |-> self.day >= 1 /\ self.day <= 31]

\* CalendarDate.valid, as [bool |-> truth value]
CalendarDate_valid(self) ==
    Only({ IF IsErr(jd) THEN jd
           ELSE Only({ IF IsErr(d_from_jd) THEN d_from_jd
                       ELSE [bool |-> ComparableMixin_eq(self, d_from_jd)] :
                       d_from_jd \in {from_jd(self.cls, jd)} }) :
           jd \in {to_jd(self)} })

DAYS_OF_WEEK ==
    <<"Sunday", "Monday", "Tuesday", "Wednesday", "Thursday", "Friday", "Saturday">>

MONTHS ==
    <<"January", "February", "March", "April", "May", "June", "July", "August",
      "September", "October", "November", "December">>

BC_ERAS == {"BC", "BCE", "B.C.", "B.C.E."}

DEFAULT_AD == "AD"

DEFULT_BC == "BC"

\* tuple[index] for a plain integer index: a negative index counts from the
\* end, an index outside -len..len-1 raises IndexError
Subscript(tuple, index) ==
    IF index < -Len(tuple) \/ index >= Len(tuple) THEN IndexError
    ELSE [val |-> tuple[(index % Len(tuple)) + 1]]

\* the decimal digit n
Digit(n) == SubSeq("0123456789", n + 1, n + 1)

\* the decimal digits of a plain integer n > 0
RECURSIVE NatStr(_)
NatStr(n) == IF n < 10 THEN Digit(n) ELSE NatStr(n \div 10) \o Digit(n % 10)

\* the six decimal digits of a plain integer 0 <= n < 10^6
SixDigits(n) ==
    Digit(n \div 100000) \o Digit((n \div 10000) % 10) \o Digit((n \div 1000) % 10)
        \o Digit((n \div 100) % 10) \o Digit((n \div 10) % 10) \o Digit(n % 10)

\* the decimal digits of a magnitude, six at a time, "" for 0
RECURSIVE MagStr(_)
MagStr(mag) ==
    IF mag = <<>> THEN ""
    ELSE Only({ Only({ IF q = <<>> THEN NatStr(qr[2]) ELSE MagStr(q) \o SixDigits(qr[2]) :
                       q \in {MagNorm(qr[1], Len(qr[1]))} }) :
                qr \in {MagDivMod(mag, 1000000, 1)} })

\* the text of a Python int in an f-string
IntStr(a) ==
    Only({ IF x.mag = <<>> THEN "0"
           ELSE IF x.neg THEN "-" \o MagStr(x.mag)
           ELSE MagStr(x.mag) :
           x \in {a} })

\* a faulty convert_signed_year whose BC year is -year
convert_signed_year_no_offset(year) ==
    Only({ IF Le(y, Zero) THEN <<Neg(y), DEFULT_BC>> ELSE <<y, DEFAULT_AD>> :
           y \in {year} })

\* CalendarDate.convert_signed_year
convert_signed_year(year) ==
    Only({ IF Le(y, Zero) THEN <<Add(Neg(y), One), DEFULT_BC>> ELSE <<y, DEFAULT_AD>> :
           y \in {year} })

\* a faulty __str__ that names the day of week counted from Monday
CalendarDate_str_monday_first(self) ==
    Only({ IF IsErr(dow) THEN dow
           ELSE IF IsErr(m) THEN m
           ELSE IF ye[2] \in BC_ERAS
           THEN [str |-> dow.val \o " " \o IntStr(I(self.day)) \o " " \o m.val \o " "
                             \o IntStr(ye[1]) \o " " \o ye[2]]
           ELSE [str |-> dow.val \o " " \o IntStr(I(self.day)) \o " " \o m.val \o " "
                             \o IntStr(self.year)] :
           dow \in {Subscript(DAYS_OF_WEEK, (self.day_of_week + 1) % 7)},
           m \in {Subscript(MONTHS, self.month - 1)},
           ye \in {convert_signed_year(self.year)} })

\* CalendarDate.__str__, as [str |-> text]
CalendarDate_str(self) ==
    Only({ IF IsErr(dow) THEN dow
           ELSE IF IsErr(m) THEN m
           ELSE IF ye[2] \in BC_ERAS
           THEN [str |-> dow.val \o " " \o IntStr(I(self.day)) \o " " \o m.val \o " "
                             \o IntStr(ye[1]) \o " " \o ye[2]]
           ELSE [str |-> dow.val \o " " \o IntStr(I(self.day)) \o " " \o m.val \o " "
                             \o IntStr(self.year)] :
           dow \in {Subscript(DAYS_OF_WEEK, self.day_of_week)},
           m \in {Subscript(MONTHS, self.month - 1)},
           ye \in {convert_signed_year(self.year)} })

(***************************************************************************)
(* The state machine.  The library is a set of pure functions; a behaviour *)
(* draws the arguments of one constructor call (input), runs it, and then  *)
(* applies conversions to the value obtained, each to the result of the    *)
(* one before.  hist is the sequence of the calls made so far, each with   *)
(* the class of its result ("Error" when it raised) and the result.        *)
(*                                                                         *)
(* A second specification, SpecScan, generates the calendar dates of       *)
(* consecutive jdn through one year (scan), as the generation tests do.    *)
(***************************************************************************)
VARIABLES input, hist, scan

vars == <<input, hist, scan>>

Window == 2

MaxChain == 5

ScanPad == 1

Offsets == (-Window)..Window

\* the jdn the windows of Julian dates are centred on: the JDN bounds, the
\* sign change, the years 0 and 1 of both calendars, the Gregorian reform,
\* century years that are and are not Gregorian leap years, the Unix epoch
JdnAnchors ==
    { get_int_bounds("JDN")[1], get_int_bounds("JDN")[2], I(0),
      I(1721059), I(1721118), I(1721424), I(1575021), I(1684593),
      I(2299160), I(2415078), I(2440587), I(2451603) }

DayFractions == {I(-1), I(0), I(5), I(51), I(65535), I(65536)}

BoundedClasses == {"uint8", "uint16", "uint256", "int256", "DateTokenIndex", "JDN"}

\* the arguments of the constructor calls a behaviour starts from
Inputs ==
    UNION { { [cls |-> c, value |-> Add(b, I(o))] :
                o \in Offsets,
                b \in {get_int_bounds(c)[1], get_int_bounds(c)[2], get_midpoint_value(c)} } :
            c \in BoundedClasses }
    \cup { [cls |-> "DateTokenIndex", value |-> Add(b, I(o))] :
             o \in Offsets,
             b \in {get_int_bounds("uint256")[2], get_midpoint_value("uint256")} }
    \cup { [cls |-> "JulianDate", jdn |-> Add(a, I(o)), day_fraction |-> I(5)] :
             a \in JdnAnchors, o \in Offsets }
    \cup { [cls |-> "JulianDate", jdn |-> a, day_fraction |-> f] :
             a \in {get_int_bounds("JDN")[1], I(-1), I(0), I(2440587)},
             f \in DayFractions }

NoScan == [cls |-> "none"]

NoInput == [cls |-> "none"]

\* the class of a result
ClassOf(cls, val) == IF IsErr(val) THEN "Error" ELSE cls

Call(op, cls, val) == [op |-> op, cls |-> ClassOf(cls, val), val |-> val]

Last == hist[Len(hist)]

CanCall(cls) == hist # <<>> /\ Len(hist) < MaxChain /\ Last.cls = cls

Init ==
    /\ input \in Inputs
    /\ hist = <<>>
    /\ scan = NoScan

\* cls(value), or JulianDate(jdn, day_fraction)
Construct ==
    /\ hist = <<>>
    /\ input # NoInput
    /\ hist' = << IF input.cls = "JulianDate"
                  THEN Call("new", "JulianDate", JulianDate(input.jdn, input.day_fraction))
                  ELSE Call("new", input.cls, SolidityInt_new(input.cls, input.value)) >>
    /\ UNCHANGED <<input, scan>>

\* dti.to_jd()
DtiToJd ==
    /\ CanCall("DateTokenIndex")
    /\ hist' = Append(hist, Call("dti.to_jd", "JulianDate", DateTokenIndex_to_jd(Last.val)))
    /\ UNCHANGED <<input, scan>>

\* jd.to_dti()
JdToDti ==
    /\ CanCall("JulianDate")
    /\ hist' = Append(hist, Call("jd.to_dti", "DateTokenIndex", JulianDate_to_dti(Last.val)))
    /\ UNCHANGED <<input, scan>>

\* jd.to_gcal_date()
JdToGcal ==
    /\ CanCall("JulianDate")
    /\ hist' = Append(hist, Call("jd.to_gcal_date", "GCalDate", JulianDate_to_gcal_date(Last.val)))
    /\ UNCHANGED <<input, scan>>

\* jd.to_jcal_date()
JdToJcal ==
    /\ CanCall("JulianDate")
    /\ hist' = Append(hist, Call("jd.to_jcal_date", "JCalDate", JulianDate_to_jcal_date(Last.val)))
    /\ UNCHANGED <<input, scan>>

\* gcal.to_jd()
GcalToJd ==
    /\ CanCall("GCalDate")
    /\ hist' = Append(hist, Call("gcal.to_jd", "JulianDate", GCalDate_to_jd(Last.val)))
    /\ UNCHANGED <<input, scan>>

\* jcal.to_jd()
JcalToJd ==
    /\ CanCall("JCalDate")
    /\ hist' = Append(hist, Call("jcal.to_jd", "JulianDate", JCalDate_to_jd(Last.val)))
    /\ UNCHANGED <<input, scan>>

\* gcal.to_jcal_date()
GcalToJcal ==
    /\ CanCall("GCalDate")
    /\ hist' = Append(hist, Call("gcal.to_jcal_date", "JCalDate", GCalDate_to_jcal_date(Last.val)))
    /\ UNCHANGED <<input, scan>>

\* jcal.to_gcal_date()
JcalToGcal ==
    /\ CanCall("JCalDate")
    /\ hist' = Append(hist, Call("jcal.to_gcal_date", "GCalDate", JCalDate_to_gcal_date(Last.val)))
    /\ UNCHANGED <<input, scan>>

\* gcal.to_dti() and jcal.to_dti()
CalToDti ==
    /\ CanCall("GCalDate") \/ CanCall("JCalDate")
    /\ hist' = Append(hist, Call("cal.to_dti", "DateTokenIndex", CalendarDate_to_dti(Last.val)))
    /\ UNCHANGED <<input, scan>>

Next ==
    \/ Construct
    \/ DtiToJd
    \/ JdToDti
    \/ JdToGcal
    \/ JdToJcal
    \/ GcalToJd
    \/ JcalToJd
    \/ GcalToJcal
    \/ JcalToGcal
    \/ CalToDti

Spec == Init /\ [][Next]_vars

(***************************************************************************)
(* SpecScan: the dates of consecutive jdn through one year of one          *)
(* calendar, from ScanPad days before 1 January of the year (found with    *)
(* to_jd, as the generation tests do) to ScanPad days after its last day.  *)
(* scan.jdn is the next jdn, scan.cur and scan.prev the last two dates     *)
(* generated, scan.seen the (day, month) pairs generated in the year and   *)
(* scan.n their number, scan.leap the leap_year of the first of them.      *)
(***************************************************************************)
CalendarClasses == {"GCalDate", "JCalDate"}

\* 19*10**9, a year near the end of the range of both calendars
BigYear == Mul(Mul(Mul(I(19), 1000), 1000), 1000)

\* the years scanned: the years of jdn -1 and 0 in both calendars, years
\* around 0, century years that are and are not Gregorian leap years, common
\* years, and years near both ends of the range
ScanYears ==
    { I(-4713), I(-4712), I(-401), I(-400), I(-100), I(-4), I(-1), I(0), I(1), I(4),
      I(100), I(1582), I(1900), I(2000), I(2021),
      BigYear, Add(BigYear, I(100)), Neg(BigYear), Sub(I(-100), BigYear) }

NoDate == [cls |-> "none"]

ScanStart(cls, year) ==
    [ cls |-> cls, year |-> year,
      jdn |-> Sub(to_jd(CalendarDate(cls, Zero, One, One, year)).jdn, I(ScanPad)),
      prev |-> NoDate, cur |-> NoDate, seen |-> {}, n |-> 0, leap |-> "unknown",
      after |-> 0 ]

InitScan ==
    /\ input = NoInput
    /\ hist = <<>>
    /\ scan \in { ScanStart(cls, year) : cls \in CalendarClasses, year \in ScanYears }

\* scan after the date of scan.jdn has been generated
Scanned(date) ==
    IF IsErr(date)
    THEN [scan EXCEPT !.jdn = Add(@, One), !.prev = scan.cur, !.cur = date]
    ELSE IF date.year = scan.year
    THEN [scan EXCEPT !.jdn = Add(@, One), !.prev = scan.cur, !.cur = date,
                      !.seen = @ \cup {<<date.day, date.month>>}, !.n = @ + 1,
                      !.leap = IF @ # "unknown" THEN @
                               ELSE IF leap_year(date) THEN "leap" ELSE "common"]
    ELSE [scan EXCEPT !.jdn = Add(@, One), !.prev = scan.cur, !.cur = date,
                      !.after = IF Lt(scan.year, date.year) THEN @ + 1 ELSE @]

\* cls.from_jd(JulianDate(scan.jdn, 5))
ScanStep ==
    /\ scan # NoScan
    /\ scan.after < ScanPad
    /\ ~IsErr(scan.cur)
    /\ \E date \in { from_jd(scan.cls, JulianDate(scan.jdn, I(5))) } : scan' = Scanned(date)
    /\ UNCHANGED <<input, hist>>

NextScan == ScanStep

SpecScan == InitScan /\ [][NextScan]_vars

(***************************************************************************)
(* SpecDate: a calendar date is made by the constructor, by from_dmy or by *)
(* from_jd (hist[1]), and one operation is applied to it (hist[2]):        *)
(* to_jd, to_dti, valid, str, or the six comparisons with a second date,   *)
(* input.other.                                                            *)
(***************************************************************************)
MaxDay == 32

\* the days of the grid: 0, every day of a month, days past every month, the
\* largest uint8
Days == (0..MaxDay) \cup {255}

\* the months of the grid: 0, the twelve months, 13
Months == 0..13

\* the years of the grid: negative years, 0, century years that are and are
\* not Gregorian leap years, a common year, a leap year
GridYears == {I(-100), I(-1), I(0), I(1900), I(2000), I(2021), I(2024)}

\* day_of_week arguments: the seven days, and uint8 values that are no day
DaysOfWeek == (0..7) \cup {255}

\* year arguments of the constructor: the year of jdn -1, 0, 1, a year of
\* eleven digits, the int256 bounds
NewYears == {I(-4713), I(0), I(1), BigYear, get_int_bounds("int256")[1], get_int_bounds("int256")[2]}

\* the fields of the dates that are compared
PairDates ==
    { [cls |-> c, day_of_week |-> I(w), day |-> I(d), month |-> I(m), year |-> I(y)] :
        c \in CalendarClasses, w \in {0, 3}, d \in {1, 2}, m \in {1, 2}, y \in {0, 1} }

DateInputs ==
    { [cls |-> c, how |-> "from_dmy", day |-> I(d), month |-> I(m), year |-> y] :
        c \in CalendarClasses, d \in Days, m \in Months, y \in GridYears }
    \cup { [cls |-> c, how |-> "from_dmy", day |-> I(a[1]), month |-> I(a[2]), year |-> a[3]] :
        c \in CalendarClasses,
        a \in { <<256, 1, I(2000)>>, <<1, 256, I(2000)>>, <<1, 255, I(2000)>>, <<-1, 1, I(2000)>>,
                <<1, 1, Pow2(255)>>, <<1, 1, get_int_bounds("int256")[2]>>,
                <<1, 1, get_int_bounds("int256")[1]>> } }
    \cup { [cls |-> c, how |-> "new", day_of_week |-> I(w), day |-> I(d), month |-> I(m), year |-> y] :
        c \in CalendarClasses, w \in DaysOfWeek, d \in {0, 1, 31}, m \in {0, 1, 12, 13, 255},
        y \in NewYears }
    \cup { [cls |-> c, how |-> "new", day_of_week |-> I(a[1]), day |-> I(a[2]), month |-> I(a[3]),
            year |-> a[4]] :
        c \in CalendarClasses,
        a \in { <<256, 1, 1, I(2000)>>, <<-1, 1, 1, I(2000)>>, <<0, 256, 1, I(2000)>>,
                <<0, 1, 256, I(2000)>>, <<0, 1, 1, Pow2(255)>> } }
    \cup { [cls |-> c, how |-> "from_jd", jdn |-> I(j)] :
        c \in CalendarClasses, j \in {-2, -1, 0, 1, 2440587} }
    \cup { [cls |-> a.cls, how |-> "new", day_of_week |-> a.day_of_week, day |-> a.day,
            month |-> a.month, year |-> a.year, other |-> b] :
        a \in PairDates, b \in PairDates }

InitDate ==
    /\ input \in DateInputs
    /\ hist = <<>>
    /\ scan = NoScan

\* cls(day_of_week, day, month, year)
DateNew ==
    /\ hist = <<>>
    /\ input.how = "new"
    /\ hist' = << Call("new", input.cls,
                       CalendarDate(input.cls, input.day_of_week, input.day, input.month,
                                    input.year)) >>
    /\ UNCHANGED <<input, scan>>

\* cls.from_dmy(day, month, year)
DateFromDmy ==
    /\ hist = <<>>
    /\ input.how = "from_dmy"
    /\ hist' = << Call("from_dmy", input.cls,
                       CalendarDate_from_dmy(input.cls, input.day, input.month, input.year)) >>
    /\ UNCHANGED <<input, scan>>

\* cls.from_jd(JulianDate(jdn, 5))
DateFromJd ==
    /\ hist = <<>>
    /\ input.how = "from_jd"
    /\ hist' = << Call("from_jd", input.cls, from_jd(input.cls, JulianDate(input.jdn, I(5)))) >>
    /\ UNCHANGED <<input, scan>>

\* a date has been made, and no operation applied to it yet
HasDate == Len(hist) = 1 /\ hist[1].cls \in CalendarClasses

\* date.to_jd()
DateToJd ==
    /\ HasDate
    /\ "other" \notin DOMAIN input
    /\ hist' = Append(hist, Call("to_jd", "JulianDate", to_jd(hist[1].val)))
    /\ UNCHANGED <<input, scan>>

\* date.to_dti()
DateToDti ==
    /\ HasDate
    /\ "other" \notin DOMAIN input
    /\ hist' = Append(hist, Call("to_dti", "DateTokenIndex", CalendarDate_to_dti(hist[1].val)))
    /\ UNCHANGED <<input, scan>>

\* date.valid
DateValid ==
    /\ HasDate
    /\ "other" \notin DOMAIN input
    /\ hist' = Append(hist, Call("valid", "bool", CalendarDate_valid(hist[1].val)))
    /\ UNCHANGED <<input, scan>>

\* str(date)
DateStr ==
    /\ HasDate
    /\ "other" \notin DOMAIN input
    /\ hist' = Append(hist, Call("str", "str", CalendarDate_str(hist[1].val)))
    /\ UNCHANGED <<input, scan>>

\* the second date, cls(day_of_week, day, month, year) of input.other
Other ==
    CalendarDate(input.other.cls, input.other.day_of_week, input.other.day,
                 input.other.month, input.other.year)

\* a < b, b < a, a == b, a != b, a > b, a >= b, a <= b for a the date and b
\* the second date
Comparison(a, b) ==
    [ lt |-> CalendarDate_lt(a, b), rlt |-> CalendarDate_lt(b, a),
      eq |-> ComparableMixin_eq(a, b), ne |-> ComparableMixin_ne(a, b),
      gt |-> ComparableMixin_gt(a, b), ge |-> ComparableMixin_ge(a, b),
      le |-> ComparableMixin_le(a, b) ]

DateCompare ==
    /\ HasDate
    /\ "other" \in DOMAIN input
    /\ \E b \in {Other} :
          hist' = Append(hist, Call("compare", "comparison", Comparison(hist[1].val, b)))
    /\ UNCHANGED <<input, scan>>

NextDate ==
    \/ DateNew
    \/ DateFromDmy
    \/ DateFromJd
    \/ DateToJd
    \/ DateToDti
    \/ DateValid
    \/ DateStr
    \/ DateCompare

SpecDate == InitDate /\ [][NextDate]_vars

(***************************************************************************)
(* Properties of the conversion chains (Spec).                             *)
(***************************************************************************)
\* hist[i] is a value of class cls and hist[i + 1] is the result of op on it
Applied(i, cls, op) == i + 1 <= Len(hist) /\ hist[i].cls = cls /\ hist[i + 1].op = op

\* hist[i] is a Julian date with day fraction 5
IsJd5(i) == i <= Len(hist) /\ hist[i].cls = "JulianDate" /\ hist[i].val.day_fraction = 5

\* C1: for every JulianDate jd with day_fraction 5 and jdn within the JDN
\* bounds, GCalDate.from_jd(jd) succeeds and GCalDate.from_jd(jd).to_jd()
\* equals jd (same jdn and day_fraction)
C1_GregorianRoundTrip ==
    \A i \in 1..Len(hist) :
        (IsJd5(i) /\ Applied(i, "JulianDate", "jd.to_gcal_date")) =>
            /\ hist[i + 1].cls = "GCalDate"
            /\ Applied(i + 1, "GCalDate", "gcal.to_jd") => hist[i + 2].val = hist[i].val

\* a Julian date with a negative jdn has made the Gregorian round trip
C1_Witness ==
    /\ Len(hist) = 3
    /\ IsJd5(1)
    /\ hist[1].val.jdn.neg
    /\ Applied(1, "JulianDate", "jd.to_gcal_date")
    /\ Applied(2, "GCalDate", "gcal.to_jd")
    /\ hist[3].val = hist[1].val

\* C2: for every JulianDate jd with day_fraction 5 and jdn within the JDN
\* bounds, JCalDate.from_jd(jd) succeeds and JCalDate.from_jd(jd).to_jd()
\* equals jd
C2_JulianRoundTrip ==
    \A i \in 1..Len(hist) :
        (IsJd5(i) /\ Applied(i, "JulianDate", "jd.to_jcal_date")) =>
            /\ hist[i + 1].cls = "JCalDate"
            /\ Applied(i + 1, "JCalDate", "jcal.to_jd") => hist[i + 2].val = hist[i].val

\* a Julian date with a negative jdn has made the Julian-calendar round trip
C2_Witness ==
    /\ Len(hist) = 3
    /\ IsJd5(1)
    /\ hist[1].val.jdn.neg
    /\ Applied(1, "JulianDate", "jd.to_jcal_date")
    /\ Applied(2, "JCalDate", "jcal.to_jd")
    /\ hist[3].val = hist[1].val

\* C3: for every constructible DateTokenIndex x (both bounds included),
\* x.to_jd() succeeds and DateTokenIndex.from_jd(x.to_jd()) == x
C3_DtiRoundTrip ==
    \A i \in 1..Len(hist) :
        Applied(i, "DateTokenIndex", "dti.to_jd") =>
            /\ hist[i + 1].cls = "JulianDate"
            /\ Applied(i + 1, "JulianDate", "jd.to_dti") => hist[i + 2].val = hist[i].val

\* the DateTokenIndex at the upper bound has made the round trip
C3_Witness ==
    /\ Len(hist) = 3
    /\ input.cls = "DateTokenIndex"
    /\ input.value = get_int_bounds("DateTokenIndex")[2]
    /\ Applied(1, "DateTokenIndex", "dti.to_jd")
    /\ Applied(2, "JulianDate", "jd.to_dti")
    /\ hist[3].val = input.value

\* C4 as claimed: for every JulianDate y (any jdn in the JDN bounds and any
\* day_fraction in the uint16 range), DateTokenIndex.from_jd(y).to_jd() == y
C4_JdRoundTripAnyFraction ==
    \A i \in 1..Len(hist) :
        (Applied(i, "JulianDate", "jd.to_dti") /\ Applied(i + 1, "DateTokenIndex", "dti.to_jd")) =>
            hist[i + 2].val = hist[i].val

\* C4 as amended: for every JulianDate y, DateTokenIndex.from_jd(y) succeeds
\* and DateTokenIndex.from_jd(y).to_jd() == JulianDate(y.jdn, 5), which is y
\* exactly when y.day_fraction is 5
C4_JdRoundTripFractionFive ==
    \A i \in 1..Len(hist) :
        Applied(i, "JulianDate", "jd.to_dti") =>
            /\ hist[i + 1].cls = "DateTokenIndex"
            /\ Applied(i + 1, "DateTokenIndex", "dti.to_jd") =>
                   /\ hist[i + 2].val = [jdn |-> hist[i].val.jdn, day_fraction |-> 5]
                   /\ (hist[i + 2].val = hist[i].val) <=> (hist[i].val.day_fraction = 5)

\* a Julian date with a day fraction other than 5 has been converted to a
\* DTI and back
C4_Witness ==
    /\ Len(hist) = 3
    /\ hist[1].cls = "JulianDate"
    /\ hist[1].val.day_fraction = 51
    /\ Applied(1, "JulianDate", "jd.to_dti")
    /\ Applied(2, "DateTokenIndex", "dti.to_jd")
    /\ hist[3].val.jdn = hist[1].val.jdn

\* C5: for each bounded type T with (lower, upper) = T.get_int_bounds(),
\* T(lower) and T(upper) succeed and T(lower - 1) and T(upper + 1) fail with
\* OverflowError; the same holds for the jdn of JulianDate(jdn, 5) against
\* the JDN bounds
C5_BoundsEnforcement ==
    /\ (hist # <<>> /\ input.cls \in BoundedClasses) =>
          LET lower == get_int_bounds(input.cls)[1]
              upper == get_int_bounds(input.cls)[2]
          IN  /\ input.value \in {lower, upper} =>
                    (hist[1].cls = input.cls /\ hist[1].val = input.value)
              /\ input.value \in {Sub(lower, One), Add(upper, One)} =>
                    (hist[1].cls = "Error" /\ hist[1].val = OverflowError)
    /\ (hist # <<>> /\ input.cls = "JulianDate" /\ input.day_fraction = I(5)) =>
          LET lower == get_int_bounds("JDN")[1]
              upper == get_int_bounds("JDN")[2]
          IN  /\ input.jdn \in {lower, upper} =>
                    (hist[1].cls = "JulianDate" /\ hist[1].val.jdn = input.jdn)
              /\ input.jdn \in {Sub(lower, One), Add(upper, One)} =>
                    (hist[1].cls = "Error" /\ hist[1].val = OverflowError)

\* int256(upper + 1) has failed with OverflowError
C5_Witness ==
    /\ hist # <<>>
    /\ input.cls = "int256"
    /\ input.value = Pow2(255)
    /\ hist[1].val = OverflowError

\* C6 as claimed: DateTokenIndex accepts exactly the integers of the uint256
\* range [0, 2^256 - 1], and its midpoint is 2^255: x.to_jd() is the Julian
\* date of jdn x - 2^255, so that DTI 0 has jdn -2^255 and DTI 2^256 - 1 has
\* jdn 2^255 - 1
C6_DtiIsUint256 ==
    (hist # <<>> /\ input.cls = "DateTokenIndex") =>
        /\ (hist[1].cls = "DateTokenIndex") <=>
               (Le(Zero, input.value) /\ Le(input.value, Sub(Pow2(256), One)))
        /\ Applied(1, "DateTokenIndex", "dti.to_jd") =>
               hist[2].val = [jdn |-> Sub(input.value, Pow2(255)), day_fraction |-> 5]

\* C7: DateTokenIndex.to_jd returns JulianDate(value - MIDPOINT, 5) for every
\* DTI: DTI(MIDPOINT + i) has the jdn of DTI(MIDPOINT) plus i, the lower DTI
\* bound has the lower JDN bound, the upper DTI bound the upper JDN bound,
\* DTI MIDPOINT has JDN.get_midpoint_value(); and JulianDate.to_dti fails
\* for no constructible JulianDate
C7_DtiToJd ==
    \A i \in 1..Len(hist) :
        /\ Applied(i, "DateTokenIndex", "dti.to_jd") =>
              /\ hist[i + 1].val = [jdn |-> Sub(hist[i].val, MIDPOINT), day_fraction |-> 5]
              /\ \A o \in Offsets :
                    hist[i].val = Add(MIDPOINT, I(o)) =>
                        hist[i + 1].val.jdn = Add(DateTokenIndex_to_jd(MIDPOINT).jdn, I(o))
              /\ hist[i].val = get_int_bounds("DateTokenIndex")[1] =>
                    hist[i + 1].val.jdn = get_int_bounds("JDN")[1]
              /\ hist[i].val = get_int_bounds("DateTokenIndex")[2] =>
                    hist[i + 1].val.jdn = get_int_bounds("JDN")[2]
              /\ hist[i].val = MIDPOINT =>
                    hist[i + 1].val.jdn = get_midpoint_value("JDN")
        /\ Applied(i, "JulianDate", "jd.to_dti") => hist[i + 1].cls = "DateTokenIndex"

\* the lower DTI bound has been converted to the lower JDN bound
C7_Witness ==
    /\ hist # <<>>
    /\ hist[1].cls = "DateTokenIndex"
    /\ hist[1].val = Zero
    /\ Applied(1, "DateTokenIndex", "dti.to_jd")
    /\ hist[2].val.jdn = get_int_bounds("JDN")[1]

\* C10: for every JulianDate jd (day_fraction 5), GCalDate.from_jd(jd)
\* .to_jcal_date() has the day_of_week, day, month and year of
\* JCalDate.from_jd(jd), JCalDate.from_jd(jd).to_gcal_date() has those of
\* GCalDate.from_jd(jd), and both calendars give the same day_of_week
C10_SameJulianDate ==
    \A i \in 1..Len(hist) :
        /\ (IsJd5(i) /\ Applied(i, "JulianDate", "jd.to_gcal_date")
                     /\ Applied(i + 1, "GCalDate", "gcal.to_jcal_date")) =>
              /\ hist[i + 2].val = JCalDate_from_jd(hist[i].val)
              /\ hist[i + 2].cls = "JCalDate"
              /\ hist[i + 2].val.day_of_week = hist[i + 1].val.day_of_week
        /\ (IsJd5(i) /\ Applied(i, "JulianDate", "jd.to_jcal_date")
                     /\ Applied(i + 1, "JCalDate", "jcal.to_gcal_date")) =>
              /\ hist[i + 2].val = GCalDate_from_jd(hist[i].val)
              /\ hist[i + 2].cls = "GCalDate"
              /\ hist[i + 2].val.day_of_week = hist[i + 1].val.day_of_week

\* a Gregorian date has been converted to a Julian-calendar date with other
\* day, month and year and the same day of week
C10_Witness ==
    /\ Len(hist) = 3
    /\ IsJd5(1)
    /\ Applied(1, "JulianDate", "jd.to_gcal_date")
    /\ Applied(2, "GCalDate", "gcal.to_jcal_date")
    /\ hist[3].cls = "JCalDate"
    /\ hist[3].val.year # hist[2].val.year
    /\ hist[3].val.day # hist[2].val.day
    /\ hist[3].val.day_of_week = hist[2].val.day_of_week

(***************************************************************************)
(* Properties of the generation of a year (SpecScan).                      *)
(***************************************************************************)
\* the leap year rule of the calendar: year % 4 == 0 and (year % 100 != 0 or
\* year % 400 == 0) for GCalDate, year % 4 == 0 for JCalDate
LeapRule(cls, year) ==
    IF cls = "GCalDate"
    THEN Mod(year, 4) = 0 /\ (Mod(year, 100) # 0 \/ Mod(year, 400) = 0)
    ELSE Mod(year, 4) = 0

\* C8: for every year scanned (negative, zero, positive), the dates from_jd
\* produces over consecutive jdn that fall in the year are 366 distinct
\* (day, month, year) dates if leap_year is true and 365 otherwise, 29
\* February is among them iff leap_year is true, and leap_year is the leap
\* rule of the calendar
C8_LeapYearCounts ==
    (scan # NoScan /\ scan.after >= 1) =>
        /\ scan.leap # "unknown"
        /\ scan.n = Cardinality(scan.seen)
        /\ scan.n = IF scan.leap = "leap" THEN 366 ELSE 365
        /\ (<<29, 2>> \in scan.seen) <=> (scan.leap = "leap")
        /\ (scan.leap = "leap") <=> LeapRule(scan.cls, scan.year)

\* a century year that is a leap year of the Julian calendar alone has been
\* generated in the Gregorian calendar, without a 29 February
C8_Witness ==
    /\ scan # NoScan
    /\ scan.after >= 1
    /\ scan.cls = "GCalDate"
    /\ scan.year = I(1900)
    /\ scan.n = 365
    /\ <<29, 2>> \notin scan.seen

\* C9: for every jdn with jdn and jdn + 1 in bounds and for both calendars,
\* the day_of_week of from_jd(JulianDate(jdn + 1, 5)) is that of
\* from_jd(JulianDate(jdn, 5)) plus 1 mod 7, also from jdn -1 to 0, and it is
\* in 0..6
C9_DayOfWeekContinuity ==
    (scan # NoScan /\ scan.cur # NoDate) =>
        /\ ~IsErr(scan.cur)
        /\ scan.cur.day_of_week \in 0..6
        /\ scan.prev # NoDate =>
               scan.cur.day_of_week = (scan.prev.day_of_week + 1) % 7

\* the dates of jdn -1 (a Monday) and jdn 0 (a Tuesday) have been generated
\* in the Julian calendar
C9_Witness ==
    /\ scan # NoScan
    /\ scan.cls = "JCalDate"
    /\ scan.jdn = One
    /\ scan.prev # NoDate
    /\ scan.prev.day_of_week = 1
    /\ scan.cur.day_of_week = 2

(***************************************************************************)
(* Properties of calendar dates (SpecDate).                                *)
(***************************************************************************)
\* the comparisons of the date hist[1] with the second date have been made
Compared == Len(hist) = 2 /\ hist[2].op = "compare"

\* C11 as claimed: a GCalDate and a JCalDate never compare equal, even when
\* their day, month and year coincide: a == b is false and a != b is true
\* for every GCalDate a and JCalDate b (either way round)
C11_CalendarsNeverEqual ==
    (Compared /\ hist[1].cls # input.other.cls) =>
        (~hist[2].val.eq /\ hist[2].val.ne)

\* C12 as claimed: two dates a and b of the same calendar satisfy a == b iff
\* their day_of_week, day, month and year are all equal
C12_EqualityAllFields ==
    (Compared /\ hist[1].cls = input.other.cls) =>
        (hist[2].val.eq <=>
            /\ hist[1].val.day_of_week = Other.day_of_week
            /\ hist[1].val.day = Other.day
            /\ hist[1].val.month = Other.month
            /\ hist[1].val.year = Other.year)

\* (a.year, a.month, a.day) is lexicographically smaller than
\* (b.year, b.month, b.day)
LexLess(a, b) ==
    \/ Lt(a.year, b.year)
    \/ a.year = b.year /\ a.month < b.month
    \/ a.year = b.year /\ a.month = b.month /\ a.day < b.day

\* C13: a < b iff (a.year, a.month, a.day) is lexicographically smaller than
\* (b.year, b.month, b.day), whatever the day_of_week; exactly one of a < b,
\* b < a, a == b holds; and a <= b iff not b < a, a > b iff b < a, a >= b iff
\* not a < b, a != b iff not a == b
C13_TotalOrder ==
    Compared =>
        /\ hist[2].val.lt <=> LexLess(hist[1].val, Other)
        /\ hist[2].val.rlt <=> LexLess(Other, hist[1].val)
        /\ Cardinality({ k \in {"lt", "rlt", "eq"} : hist[2].val[k] }) = 1
        /\ hist[2].val.le <=> ~hist[2].val.rlt
        /\ hist[2].val.gt <=> hist[2].val.rlt
        /\ hist[2].val.ge <=> ~hist[2].val.lt
        /\ hist[2].val.ne <=> ~hist[2].val.eq

\* a date of a later month and an earlier day and day of week has been
\* compared with a date of the same year: it is the larger
C13_Witness ==
    /\ Compared
    /\ hist[1].val.year = Other.year
    /\ hist[1].val.month > Other.month
    /\ hist[1].val.day < Other.day
    /\ hist[1].val.day_of_week < Other.day_of_week
    /\ hist[2].val.gt
    /\ ~hist[2].val.lt

\* the number of days of month m (1..12) of a year that is leap or not
DaysInMonth(m, leap) ==
    IF m = 2 THEN (IF leap THEN 29 ELSE 28)
    ELSE IF m \in {4, 6, 9, 11} THEN 30
    ELSE 31

\* C14: for every day d of the grid (0..255), month m in 1..12 and year y,
\* cls.from_dmy(d, m, y).valid is true iff 1 <= d <= the number of days of
\* month m in year y of the calendar, February having 29 days iff y is a leap
\* year by the rule of the calendar; GCalDate.from_dmy(30, 2, 2000).valid is
\* false and GCalDate.from_dmy(29, 2, 2000).valid is true
C14_Validity ==
    (Len(hist) = 2 /\ hist[1].op = "from_dmy" /\ hist[2].op = "valid"
                   /\ hist[1].val.month \in 1..12) =>
        /\ hist[2].cls = "bool"
        /\ hist[2].val.bool <=>
               /\ 1 <= hist[1].val.day
               /\ hist[1].val.day <=
                      DaysInMonth(hist[1].val.month, LeapRule(hist[1].cls, hist[1].val.year))
        /\ (hist[1].cls = "GCalDate" /\ hist[1].val.year = I(2000) /\ hist[1].val.month = 2) =>
               /\ hist[1].val.day = 29 => hist[2].val.bool
               /\ hist[1].val.day = 30 => ~hist[2].val.bool

\* 29 February 1900 has been found invalid in the Gregorian calendar
C14_Witness ==
    /\ Len(hist) = 2
    /\ hist[1].op = "from_dmy"
    /\ hist[2].op = "valid"
    /\ hist[1].cls = "GCalDate"
    /\ hist[1].val.year = I(1900)
    /\ hist[1].val.month = 2
    /\ hist[1].val.day = 29
    /\ ~hist[2].val.bool

\* str has been applied to the date hist[1]
Rendered == Len(hist) = 2 /\ hist[2].op = "str"

C16_EpochStringAsClaimed ==
    (Rendered /\ hist[1].op = "from_jd" /\ hist[1].cls = "GCalDate" /\ input.jdn = I(-1)) =>
        /\ hist[1].val.year = I(-4713)
        /\ hist[1].val.month = 11
        /\ hist[1].val.day = 24
        /\ hist[2].val.str = "Monday 24 November 4713 BC"

\* C16 as amended: JulianDate(-1, 5) converted to the Gregorian calendar has
\* year -4713, month 11, day 24, day_of_week 1, and renders as
\* "Monday 24 November 4714 BC", the displayed year being -year + 1
C16_EpochString ==
    (Rendered /\ hist[1].op = "from_jd" /\ hist[1].cls = "GCalDate" /\ input.jdn = I(-1)) =>
        /\ hist[1].val.year = I(-4713)
        /\ hist[1].val.month = 11
        /\ hist[1].val.day = 24
        /\ hist[1].val.day_of_week = 1
        /\ hist[2].val.str = "Monday 24 November 4714 BC"

\* the Gregorian date of JulianDate(-1, 5) has been rendered
C16_Witness ==
    /\ Rendered
    /\ hist[1].op = "from_jd"
    /\ hist[1].cls = "GCalDate"
    /\ input.jdn = I(-1)
    /\ hist[1].val.year = I(-4713)
    /\ hist[2].cls = "str"

\* C17 as claimed: the formula (jdn + 2) mod 7 with 0 = Sunday makes JDN 0 a
\* Monday: day_of_week_from_jd(JulianDate(0, 5)) == 1, for both calendars
C17_JdnZeroIsMonday ==
    (hist # <<>> /\ hist[1].op = "from_jd" /\ input.jdn = Zero) =>
        /\ day_of_week_from_jd(hist[1].cls, JulianDate(input.jdn, I(5))) = 1
        /\ hist[1].val.day_of_week = 1

\* C17 as amended: with the formula (jdn + 2) mod 7 and 0 = Sunday,
\* day_of_week_from_jd(JulianDate(0, 5)) == 2, a Tuesday, and
\* day_of_week_from_jd(JulianDate(-1, 5)) == 1, a Monday, for both calendars;
\* from_jd gives its date that day_of_week
C17_JdnZeroIsTuesday ==
    (hist # <<>> /\ hist[1].op = "from_jd") =>
        /\ input.jdn = Zero =>
              /\ day_of_week_from_jd(hist[1].cls, JulianDate(input.jdn, I(5))) = 2
              /\ hist[1].val.day_of_week = 2
        /\ input.jdn = I(-1) =>
              /\ day_of_week_from_jd(hist[1].cls, JulianDate(input.jdn, I(5))) = 1
              /\ hist[1].val.day_of_week = 1

\* the Julian-calendar date of JulianDate(0, 5) has been made: 2 January
\* -4712, a Tuesday
C17_Witness ==
    /\ hist # <<>>
    /\ hist[1].op = "from_jd"
    /\ hist[1].cls = "JCalDate"
    /\ input.jdn = Zero
    /\ hist[1].val.day = 2
    /\ hist[1].val.month = 1
    /\ hist[1].val.year = I(-4712)
    /\ hist[1].val.day_of_week = 2

\* C18: to_jd of both calendars raises no error for day 0 or month 0; for
\* every month m in 1..12 and year y, the date (day 0, m, y) has the Julian
\* date of the last day of the month before (of December of y - 1 for
\* January), and for every day d the date (d, month 0, y) has the Julian date
\* of (d, month 12, y - 1)
C18_Rollover ==
    (Len(hist) = 2 /\ hist[1].op = "from_dmy" /\ hist[2].op = "to_jd") =>
        LET cls == hist[1].cls
            d == hist[1].val.day
            m == hist[1].val.month
            y == hist[1].val.year
        IN  /\ (d = 0 /\ m \in 0..12) \/ m = 0 => hist[2].cls = "JulianDate"
            /\ (d = 0 /\ m \in 2..12) =>
                  hist[2].val =
                      to_jd(CalendarDate(cls, Zero, I(DaysInMonth(m - 1, LeapRule(cls, y))),
                                         I(m - 1), y))
            /\ (d = 0 /\ m = 1) =>
                  hist[2].val = to_jd(CalendarDate(cls, Zero, I(31), I(12), Sub(y, One)))
            /\ m = 0 =>
                  hist[2].val = to_jd(CalendarDate(cls, Zero, I(d), I(12), Sub(y, One)))

\* day 0 of March 2000 of the Gregorian calendar has been converted: it is
\* the Julian date of 29 February 2000
C18_Witness ==
    /\ Len(hist) = 2
    /\ hist[1].op = "from_dmy"
    /\ hist[2].op = "to_jd"
    /\ hist[1].cls = "GCalDate"
    /\ hist[1].val.day = 0
    /\ hist[1].val.month = 3
    /\ hist[1].val.year = I(2000)
    /\ hist[2].val = [jdn |-> I(2451603), day_fraction |-> 5]

\* C19 as claimed: every operation (from_jd, to_jd, to_dti, from_dmy, valid,
\* str) on values constructed successfully either returns a result or fails
\* with OverflowError; no other kind of error is raised
C19_SingleErrorKind ==
    \A i \in 1..Len(hist) : hist[i].cls = "Error" => hist[i].val = OverflowError

(***************************************************************************)
(* The day fraction of the Julian dates the conversions produce (Spec).    *)
(***************************************************************************)
\* C20: every JulianDate produced by DateTokenIndex.to_jd (JulianDate
\* .from_dti), GCalDate.to_jd or JCalDate.to_jd, in any chain of conversions
\* and whatever the day_fraction of the input, has day_fraction == 5
C20_DayFractionFive ==
    \A i \in 1..Len(hist) :
        (hist[i].op \in {"dti.to_jd", "gcal.to_jd", "jcal.to_jd"} /\ hist[i].cls = "JulianDate") =>
            hist[i].val.day_fraction = 5

\* a Julian date of day fraction 65535 has been converted to a calendar date
\* and back to a Julian date of day fraction 5
C20_Witness ==
    /\ Len(hist) = 3
    /\ hist[1].cls = "JulianDate"
    /\ hist[1].val.day_fraction = 65535
    /\ hist[2].op = "jd.to_jcal_date"
    /\ hist[3].op = "jcal.to_jd"
    /\ hist[3].val.day_fraction = 5
    /\ hist[3].val.jdn = hist[1].val.jdn

(***************************************************************************)
(* The reference dates (SpecEpoch): the Julian dates of the tables         *)
(* test_gcal_data and test_jcal_data are constructed with day fraction 5,  *)
(* converted to a calendar, and the date is rendered or converted back.    *)
(***************************************************************************)
\* the jdn of test_gcal_data and test_jcal_data
EpochJdn ==
    { I(-39), I(-38), I(-1), I(0), I(37), I(38), I(1721057), I(1721059), I(1721116),
      I(1721117), I(1721118), I(1721119), I(1721422), I(1721423), I(1721424), I(1721425),
      I(2299149), I(2299159), I(2299160), I(2299170), I(2393470), I(2393482), I(2400000),
      I(2400012), I(2415020), I(2415032), I(2415385), I(2415398), I(2440587), I(2440600),
      I(2444239), I(2444252) }

EpochInputs == { [cls |-> "JulianDate", jdn |-> j, day_fraction |-> I(5)] : j \in EpochJdn }

InitEpoch ==
    /\ input \in EpochInputs
    /\ hist = <<>>
    /\ scan = NoScan

\* str(gcal) and str(jcal)
CalStr ==
    /\ CanCall("GCalDate") \/ CanCall("JCalDate")
    /\ hist' = Append(hist, Call("str", "str", CalendarDate_str(Last.val)))
    /\ UNCHANGED <<input, scan>>

NextEpoch ==
    \/ Construct
    \/ JdToGcal
    \/ JdToJcal
    \/ GcalToJd
    \/ JcalToJd
    \/ CalStr

SpecEpoch == InitEpoch /\ [][NextEpoch]_vars

\* hist[2] is the calendar date op made of JulianDate(jdn, 5)
EpochDate(jdn, op) ==
    /\ Applied(1, "JulianDate", op)
    /\ hist[1].val = [jdn |-> I(jdn), day_fraction |-> 5]

\* the date r is of class cls and has the given year, month and day
IsYmd(r, cls, year, month, day) ==
    /\ r.cls = cls
    /\ r.val.year = I(year)
    /\ r.val.month = month
    /\ r.val.day = day

\* jdn, year, month, day of the Gregorian reference dates
GregorianEpochs ==
    { <<0, -4713, 11, 25>>, <<1721118, 0, 2, 29>>, <<1721119, 0, 3, 1>>,
      <<1721425, 1, 1, 1>>, <<2299160, 1582, 10, 15>>, <<2415020, 1900, 1, 1>>,
      <<2440587, 1970, 1, 1>> }

\* C21: to_gcal_date maps JulianDate(jdn, 5) to (year, month, day) as
\* follows: 0 to (-4713, 11, 25), 1721118 to (0, 2, 29), 1721119 to
\* (0, 3, 1), 1721425 to (1, 1, 1), 2299160 to (1582, 10, 15), 2415020 to
\* (1900, 1, 1) and 2440587 to (1970, 1, 1).
C21_GregorianEpochs ==
    \A e \in GregorianEpochs :
        EpochDate(e[1], "jd.to_gcal_date") => IsYmd(hist[2], "GCalDate", e[2], e[3], e[4])

\* JulianDate(2415020, 5) has been converted, to 1 January 1900
C21_Witness ==
    /\ EpochDate(2415020, "jd.to_gcal_date")
    /\ IsYmd(hist[2], "GCalDate", 1900, 1, 1)

\* jdn, year, month, day of the Julian calendar reference dates
JulianEpochs == { <<-1, -4712, 1, 1>>, <<1721116, 0, 2, 29>>, <<1721423, 1, 1, 1>> }

\* C22: JulianDate(-1, 5).to_jcal_date() is year -4712, month 1, day 1, a
\* Monday (day_of_week 1), and its string is "Monday 1 January 4713 BC";
\* to_jcal_date maps jdn 1721116 to (0, 2, 29) and jdn 1721423 to (1, 1, 1).
C22_JulianEpochs ==
    /\ \A e \in JulianEpochs :
          EpochDate(e[1], "jd.to_jcal_date") => IsYmd(hist[2], "JCalDate", e[2], e[3], e[4])
    /\ EpochDate(-1, "jd.to_jcal_date") => hist[2].val.day_of_week = 1
    /\ EpochDate(-1, "jd.to_jcal_date") /\ Applied(2, "JCalDate", "str")
          => hist[3].val = [str |-> "Monday 1 January 4713 BC"]

\* JulianDate(-1, 5) has been converted to the Julian calendar and rendered
C22_Witness ==
    /\ EpochDate(-1, "jd.to_jcal_date")
    /\ Applied(2, "JCalDate", "str")
    /\ hist[3].val = [str |-> "Monday 1 January 4713 BC"]

(***************************************************************************)
(* The succession of the dates of consecutive jdn (SpecScan).              *)
(***************************************************************************)
MaxSpan == 3

\* the calendar day after the date (y, m, d) of calendar cls, as
\* <<year, month, day>>
NextDay(cls, date) ==
    IF date.day < DaysInMonth(date.month, LeapRule(cls, date.year))
    THEN <<date.year, date.month, date.day + 1>>
    ELSE IF date.month < 12 THEN <<date.year, date.month + 1, 1>>
    ELSE <<Add(date.year, One), 1, 1>>

\* the jdn of the date scan.cur
CurJdn == Sub(scan.jdn, One)

\* C23: for each calendar and consecutive jdn, from_jd(jdn + 1) is the
\* calendar day after from_jd(jdn) = (y, m, d): (y, m, d + 1) when d is not
\* the last day of month m of year y, otherwise (y, m + 1, 1) when m < 12,
\* otherwise (y + 1, 1, 1); from_jd(jdn) < from_jd(jdn + 1) in the order of
\* (year, month, day); and i days later, inside the month, the day is d + i
\* with the same month and year
C23_CalendarSuccessor ==
    (scan # NoScan /\ scan.cur # NoDate) =>
        /\ ~IsErr(scan.cur)
        /\ scan.cur.month \in 1..12
        /\ scan.prev # NoDate =>
              /\ <<scan.cur.year, scan.cur.month, scan.cur.day>> = NextDay(scan.cls, scan.prev)
              /\ CalendarDate_lt(scan.prev, scan.cur)
              /\ ~CalendarDate_lt(scan.cur, scan.prev)
        /\ \A i \in 1..MaxSpan :
              scan.cur.day + i <= DaysInMonth(scan.cur.month, LeapRule(scan.cls, scan.cur.year)) =>
                  \E later \in {from_jd(scan.cls, JulianDate(Add(CurJdn, I(i)), I(5)))} :
                      /\ ~IsErr(later)
                      /\ later.day = scan.cur.day + i
                      /\ later.month = scan.cur.month
                      /\ later.year = scan.cur.year

\* 31 December of the year before and 1 January of a year near the end of
\* the range have been generated, in the Gregorian calendar
C23_Witness ==
    /\ scan # NoScan
    /\ scan.cls = "GCalDate"
    /\ scan.year = BigYear
    /\ scan.prev # NoDate
    /\ scan.prev.day = 31
    /\ scan.prev.month = 12
    /\ scan.prev.year = Sub(BigYear, One)
    /\ scan.cur.day = 1
    /\ scan.cur.month = 1
    /\ scan.cur.year = BigYear

(***************************************************************************)
(* The intermediate values of from_jd (SpecScan).                          *)
(***************************************************************************)
\* C25: for every jdn scanned (negative, zero, positive) and both
\* calendars, the day of the cycle c of from_jd is in 1..366 and the month m
\* is in 3..14, so the index m - 3 is in 0..11, and int((5 * c + 456) / 153)
\* is the floor of the quotient; the date returned is made of these values,
\* has month in 1..12, day in 1..31 and day_of_week in 0..6, and is no
\* OverflowError
C25_FromJdWellFormed ==
    (scan # NoScan /\ scan.cur # NoDate) =>
        \E x \in {FromJdCycle(scan.cls, JulianDate(CurJdn, I(5)))} :
            /\ Le(One, x.c) /\ Le(x.c, I(366))
            /\ Le(I(3), x.m) /\ Le(x.m, I(14))
            /\ ToInt(x.m) - 3 \in 0..11
            /\ x.m = FloorDiv(Add(Mul(x.c, 5), I(456)), 153)
            /\ ~IsErr(scan.cur)
            /\ scan.cur.day = ToInt(x.c) - _FROM_JD_HELPER[ToInt(x.m) - 3 + 1]
            /\ scan.cur.month = IF ToInt(x.m) > 12 THEN ToInt(x.m) - 12 ELSE ToInt(x.m)
            /\ scan.cur.year = IF ToInt(x.m) > 12 THEN Add(x.y, One) ELSE x.y
            /\ scan.cur.month \in 1..12
            /\ scan.cur.day \in 1..31
            /\ scan.cur.day_of_week \in 0..6

\* 29 February of the year -4 has been generated: the last day, 366, of the
\* cycle that starts in March of the year -5, in its month 14
C25_Witness ==
    /\ scan # NoScan
    /\ scan.cur # NoDate
    /\ scan.cur.day = 29
    /\ scan.cur.month = 2
    /\ scan.cur.year = I(-4)
    /\ FromJdCycle(scan.cls, JulianDate(CurJdn, I(5))) = [y |-> I(-5), c |-> I(366), m |-> I(14)]

(***************************************************************************)
(* The day of week from_dmy computes (SpecDate).                           *)
(***************************************************************************)
\* C24: whenever to_jd succeeds, cls.from_dmy(d, m, y).day_of_week is
\* (to_jd(d, m, y).jdn + 2) mod 7; for every valid date (m in 1..12 and d in
\* 1..the days of the month) from_dmy(d, m, y) has the four fields of
\* cls.from_jd(to_jd(d, m, y)); GCalDate.from_dmy(25, 12, 2021).day_of_week
\* is 6
C24_FromDmyDayOfWeek ==
    /\ (Len(hist) = 2 /\ hist[1].op = "from_dmy" /\ hist[2].op = "to_jd") =>
          /\ hist[1].cls \in CalendarClasses => hist[2].cls = "JulianDate"
          /\ hist[2].cls = "JulianDate" =>
                /\ hist[1].val.day_of_week = Mod(Add(hist[2].val.jdn, I(2)), 7)
                /\ (/\ hist[1].val.month \in 1..12
                    /\ hist[1].val.day >= 1
                    /\ hist[1].val.day <=
                           DaysInMonth(hist[1].val.month, LeapRule(hist[1].cls, hist[1].val.year)))
                      => from_jd(hist[1].cls, hist[2].val) = hist[1].val
    /\ (hist # <<>> /\ hist[1].op = "from_dmy" /\ input.cls = "GCalDate" /\ input.day = I(25)
            /\ input.month = I(12) /\ input.year = I(2021)) =>
          /\ hist[1].cls = "GCalDate"
          /\ hist[1].val.day_of_week = 6

\* GCalDate.from_dmy(25, 12, 2021), a Saturday, has been converted to its
\* Julian date
C24_Witness ==
    /\ Len(hist) = 2
    /\ hist[1].op = "from_dmy"
    /\ hist[2].op = "to_jd"
    /\ hist[1].cls = "GCalDate"
    /\ hist[1].val = [cls |-> "GCalDate", day_of_week |-> 6, day |-> 25, month |-> 12,
                      year |-> I(2021)]
    /\ hist[2].val = [jdn |-> I(2459573), day_fraction |-> 5]

(***************************************************************************)
(* Years, eras and centuries of CalendarDate.                              *)
(*                                                                         *)
(* get_century_of_signed_year divides with /, the true division of Python: *)
(* the quotient of two ints is the float (IEEE 754 binary64, 53 bits of    *)
(* significand) nearest to the exact quotient, ties to the even            *)
(* significand.  A float is modelled as [sig, exp], the number             *)
(* sig * 2^exp, sig a Python int.                                          *)
(***************************************************************************)
AD_ERAS == {"AD", "CE", "A.D.", "C.E."}

\* the number of bits of a plain integer 0 <= n < 256
RECURSIVE BitLenLimb(_)
BitLenLimb(n) == IF n = 0 THEN 0 ELSE 1 + BitLenLimb(n \div 2)

\* Python a.bit_length()
BitLen(a) ==
    Only({ IF x.mag = <<>> THEN 0
           ELSE 8 * (Len(x.mag) - 1) + BitLenLimb(x.mag[Len(x.mag)]) : x \in {a} })

\* Python a << k for a >= 0
ShiftLeft(a, k) ==
    Big(FALSE, [i \in 1..(k \div 8) |-> 0] \o Mul(a, 2 ^ (k % 8)).mag)

\* Python a >> k for a >= 0
ShiftRight(a, k) ==
    Only({ FloorDiv(Big(FALSE, SubSeq(x.mag, (k \div 8) + 1, Len(x.mag))), 2 ^ (k % 8)) :
           x \in {a} })

\* t (a quotient of at least 54 bits, with sticky telling that bits were
\* lost below it) rounded to 53 bits, to nearest and ties to even, as
\* [sig, exp] with exp counted from scale
RoundToFloat(t, sticky, scale) ==
    Only({ Only({ Only({ [ sig |-> IF \/ Lt(Pow2(drop - 1), lost)
                                      \/ lost = Pow2(drop - 1) /\ (sticky \/ Mod(sig, 2) = 1)
                                   THEN Add(sig, One) ELSE sig,
                           exp |-> drop - scale ] :
                         lost \in {Sub(t, ShiftLeft(sig, drop))} }) :
                  sig \in {ShiftRight(t, drop)} }) :
           drop \in {BitLen(t) - 53} })

\* Python a / d for ints a >= 0 and 0 < d < 2^22: the float nearest to the
\* quotient
TrueDiv(a, d) ==
    IF a = Zero THEN [sig |-> Zero, exp |-> 0]
    ELSE Only({ Only({ RoundToFloat(FloorDiv(n, d), Mod(n, d) # 0, scale) :
                       n \in {ShiftLeft(a, scale)} }) :
                scale \in { IF BitLen(a) - BitLen(I(d)) >= 54 THEN 0
                            ELSE 54 - (BitLen(a) - BitLen(I(d))) } })

\* math.ceil(x) of a float x >= 0
math_ceil(x) ==
    IF x.exp >= 0 THEN ShiftLeft(x.sig, x.exp)
    ELSE Only({ IF ShiftLeft(q, -x.exp) = x.sig THEN q ELSE Add(q, One) :
                q \in {ShiftRight(x.sig, -x.exp)} })

\* a faulty convert_unsigned_year without the year 0: the year u BC is -u
convert_unsigned_year_no_offset(year, era) ==
    IF era \in BC_ERAS THEN Neg(year) ELSE year

\* CalendarDate.convert_unsigned_year
convert_unsigned_year(year, era) ==
    IF era \in BC_ERAS THEN Neg(Sub(year, One)) ELSE year

\* CalendarDate.get_century_of_signed_year
get_century_of_signed_year(year) ==
    Only({ <<math_ceil(TrueDiv(cs[1], 100)), cs[2]>> : cs \in {convert_signed_year(year)} })

\* CalendarDate.get_signed_bounds_of_century, as <<start, end>>
get_signed_bounds_of_century(century, era) ==
    IF era \in BC_ERAS
    THEN <<Add(Mul(Neg(century), 100), One), Mul(Add(Neg(century), One), 100)>>
    ELSE <<Add(Mul(Sub(century, One), 100), One), Mul(century, 100)>>

(***************************************************************************)
(* Years and centuries (SpecYear): a behaviour starts from a signed year,  *)
(* from an unsigned year with an era, or from a century with an era        *)
(* (hist[1]), and converts it: convert_signed_year, convert_unsigned_year, *)
(* get_century_of_signed_year, get_signed_bounds_of_century.               *)
(***************************************************************************)
\* the signed years the windows are centred on: the years around 0, ends of
\* centuries, the years of the calendar's range, the years from which on the
\* float quotient of the century loses the hundredths, the int256 bounds
YearAnchors ==
    { I(0), I(100), I(-100), I(200), I(-200), I(1900), I(2000), I(-4713),
      BigYear, Neg(BigYear),
      Mul(Pow2(46), 100), Mul(Pow2(47), 100), Neg(Mul(Pow2(47), 100)),
      Mul(Pow2(53), 100), Mul(Mul(BigYear, 1000), 10000),
      get_int_bounds("int256")[1], get_int_bounds("int256")[2] }

\* unsigned years and centuries: the first ones, and large ones
UnsignedYears ==
    { I(1), I(2), I(3), I(100), I(101), I(2000), BigYear, Mul(Pow2(47), 100),
      get_int_bounds("int256")[2] }

YearInputs ==
    { [cls |-> "signed", year |-> y] :
        y \in { v \in { Add(a, I(o)) : a \in YearAnchors, o \in Offsets } :
                  /\ Le(get_int_bounds("int256")[1], v)
                  /\ Le(v, get_int_bounds("int256")[2]) } }
    \cup { [cls |-> "unsigned", year |-> u, era |-> e] :
             u \in UnsignedYears, e \in BC_ERAS \cup AD_ERAS }
    \cup { [cls |-> "century", century |-> u, era |-> e] :
             u \in UnsignedYears, e \in BC_ERAS \cup AD_ERAS }

InitYear ==
    /\ input \in YearInputs
    /\ hist = <<>>
    /\ scan = NoScan

\* the argument of the first call
YearArgument ==
    /\ hist = <<>>
    /\ hist' = << Call("argument", input.cls,
                       CASE input.cls = "signed" -> [year |-> input.year]
                         [] input.cls = "unsigned" -> [year |-> input.year, era |-> input.era]
                         [] input.cls = "century" ->
                                [century |-> input.century, era |-> input.era]) >>
    /\ UNCHANGED <<input, scan>>

\* cls.convert_signed_year(year)
ConvertSignedYear ==
    /\ CanCall("signed")
    /\ \E r \in {convert_signed_year(Last.val.year)} :
          hist' = Append(hist, Call("convert_signed_year", "unsigned",
                                    [year |-> r[1], era |-> r[2]]))
    /\ UNCHANGED <<input, scan>>

\* cls.convert_unsigned_year(year, era)
ConvertUnsignedYear ==
    /\ CanCall("unsigned")
    /\ hist' = Append(hist, Call("convert_unsigned_year", "signed",
                                 [year |-> convert_unsigned_year(Last.val.year, Last.val.era)]))
    /\ UNCHANGED <<input, scan>>

\* cls.get_century_of_signed_year(year)
CenturyOfSignedYear ==
    /\ CanCall("signed")
    /\ \E r \in {get_century_of_signed_year(Last.val.year)} :
          hist' = Append(hist, Call("get_century_of_signed_year", "century",
                                    [century |-> r[1], era |-> r[2]]))
    /\ UNCHANGED <<input, scan>>

\* cls.get_signed_bounds_of_century(century, era)
SignedBoundsOfCentury ==
    /\ CanCall("century")
    /\ \E r \in {get_signed_bounds_of_century(Last.val.century, Last.val.era)} :
          hist' = Append(hist, Call("get_signed_bounds_of_century", "bounds",
                                    [start |-> r[1], end |-> r[2]]))
    /\ UNCHANGED <<input, scan>>

NextYear ==
    \/ YearArgument
    \/ ConvertSignedYear
    \/ ConvertUnsignedYear
    \/ CenturyOfSignedYear
    \/ SignedBoundsOfCentury

SpecYear == InitYear /\ [][NextYear]_vars

\* the default era of the family of era
DefaultEra(era) == IF era \in BC_ERAS THEN DEFULT_BC ELSE DEFAULT_AD

\* C26: for every signed year y, convert_signed_year(y) is (u, era) with
\* u >= 1, era 'BC' and u = -y + 1 when y <= 0, era 'AD' and u = y when
\* y >= 1, and convert_unsigned_year(u, era) is y; for every u >= 1 and era
\* of the BC or AD family, convert_signed_year(convert_unsigned_year(u, era))
\* is u with the default era of that family
C26_YearRoundTrip ==
    /\ (Len(hist) >= 2 /\ hist[1].cls = "signed" /\ hist[2].op = "convert_signed_year") =>
          /\ Le(One, hist[2].val.year)
          /\ Le(hist[1].val.year, Zero) =>
                /\ hist[2].val.era = "BC"
                /\ hist[2].val.year = Add(Neg(hist[1].val.year), One)
          /\ Le(One, hist[1].val.year) =>
                /\ hist[2].val.era = "AD"
                /\ hist[2].val.year = hist[1].val.year
          /\ (Len(hist) = 3 /\ hist[3].op = "convert_unsigned_year") =>
                hist[3].val.year = hist[1].val.year
    /\ (Len(hist) = 3 /\ hist[1].cls = "unsigned" /\ hist[2].op = "convert_unsigned_year"
            /\ hist[3].op = "convert_signed_year") =>
          /\ hist[3].val.year = hist[1].val.year
          /\ hist[3].val.era = DefaultEra(hist[1].val.era)
          /\ hist[1].val.era \in BC_ERAS <=> hist[3].val.era = "BC"
          /\ hist[1].val.era \in AD_ERAS <=> hist[3].val.era = "AD"

\* the year 0 has been converted to 1 BC and back to the year 0
C26_Witness ==
    /\ Len(hist) = 3
    /\ hist[1].val = [year |-> Zero]
    /\ hist[2].val = [year |-> One, era |-> "BC"]
    /\ hist[3].op = "convert_unsigned_year"
    /\ hist[3].val = [year |-> Zero]

\* the bounds of the century after (century, era), as <<start, end>>
NextCentury(century, era) == get_signed_bounds_of_century(Add(century, One), era)

\* C27 as claimed: for every signed year y, with (c, era) =
\* get_century_of_signed_year(y) and (start, end) =
\* get_signed_bounds_of_century(c, era): c >= 1, start <= y <= end and
\* end - start == 99; the centuries partition the signed years: BC century
\* 1 is [-99, 0], AD century 1 is [1, 100], and the end of each century is
\* one less than the start of the next
C27_CenturyArithmetic ==
    /\ (Len(hist) = 3 /\ hist[1].cls = "signed" /\ hist[2].op = "get_century_of_signed_year"
            /\ hist[3].op = "get_signed_bounds_of_century") =>
          /\ Le(One, hist[2].val.century)
          /\ Le(hist[3].val.start, hist[1].val.year)
          /\ Le(hist[1].val.year, hist[3].val.end)
          /\ Sub(hist[3].val.end, hist[3].val.start) = I(99)
    /\ (Len(hist) = 2 /\ hist[1].cls = "century"
            /\ hist[2].op = "get_signed_bounds_of_century") =>
          /\ Sub(hist[2].val.end, hist[2].val.start) = I(99)
          /\ (hist[1].val.century = One /\ hist[1].val.era \in BC_ERAS) =>
                hist[2].val = [start |-> I(-99), end |-> Zero]
          /\ (hist[1].val.century = One /\ hist[1].val.era \in AD_ERAS) =>
                hist[2].val = [start |-> One, end |-> I(100)]
          /\ hist[1].val.era \in AD_ERAS =>
                NextCentury(hist[1].val.century, hist[1].val.era)[1] = Add(hist[2].val.end, One)
          /\ hist[1].val.era \in BC_ERAS =>
                Add(NextCentury(hist[1].val.century, hist[1].val.era)[2], One) = hist[2].val.start

(***************************************************************************)
(* The instant of a chain of conversions (Spec).                           *)
(***************************************************************************)
\* value.to_dti(), value itself for a DateTokenIndex
BackToDti(call) ==
    CASE call.cls = "DateTokenIndex" -> call.val
      [] call.cls = "JulianDate" -> JulianDate_to_dti(call.val)
      [] call.cls \in CalendarClasses -> CalendarDate_to_dti(call.val)
      [] OTHER -> call.val

\* the chain starts from a DateTokenIndex
FromDti == hist # <<>> /\ hist[1].op = "new" /\ hist[1].cls = "DateTokenIndex"

\* C28: starting from any DateTokenIndex x and applying any sequence of the
\* conversions to_jd, to_dti, to_gcal_date, to_jcal_date, no step raises an
\* error, converting the value of any step back to a DateTokenIndex yields
\* x, and no conversion modifies a value made before it
C28_InstantPreserved ==
    /\ [](FromDti =>
            \A i \in 1..Len(hist) :
                /\ hist[i].cls # "Error"
                /\ BackToDti(hist[i]) = hist[1].val)
    /\ [][\A i \in 1..Len(hist) : hist'[i] = hist[i]]_vars

\* the lower bound of DateTokenIndex has been converted to a Julian date, to
\* the Gregorian and on to the Julian calendar
C28_Witness ==
    /\ FromDti
    /\ Len(hist) >= 4
    /\ hist[1].val = get_int_bounds("DateTokenIndex")[1]
    /\ hist[2].op = "dti.to_jd"
    /\ hist[3].op = "jd.to_gcal_date"
    /\ hist[4].op = "gcal.to_jcal_date"
    /\ hist[4].cls = "JCalDate"
    /\ CalendarDate_to_dti(hist[4].val) = hist[1].val
====
